---- MODULE Spec2Model ----
(***************************************************************************)
(* Model of microblog: the command line interface (cli.py: argument        *)
(* parsing, state load, action dispatch, atomic state dump on __del__)     *)
(* and the plain text renderer (renderers.py).                             *)
(***************************************************************************)
EXTENDS Integers, Sequences, FiniteSets, TLC

VARIABLES
    fs,         \* the filesystem: absolute path -> [kind, text]
    fs0,        \* the filesystem before any invocation started (history)
    pc,         \* position of every invocation
    argv,       \* command line and environment of every invocation
    args,       \* the argparse Namespace of every invocation
    inst,       \* instance attributes (__dict__) of every MicroblogCLI object
    temp,       \* path of the NamedTemporaryFile of every invocation
    written,    \* number of tokens of the dump already written to temp
    events,     \* what an invocation has done so far, in order (history)
    writes,     \* the paths an invocation created or wrote (history)
    lastwriter, \* per path, the invocation whose os.replace hit it last
    status,     \* exit status of every invocation, -1 while none is decided
    loadres,    \* how _load went for every invocation (history)
    text,       \* renderer: the input text
    out,        \* renderer: the output of plaintext
    paras,      \* renderer: per emitted paragraph, its source and its content
    rpc         \* renderer: position

rvars == <<text, out, paras, rpc>>
vars == <<fs, fs0, pc, argv, args, inst, temp, written, events, writes, lastwriter,
          status, loadres, text, out, paras, rpc>>

(***************************************************************************)
(* Values                                                                  *)
(***************************************************************************)
Procs == {"inv1", "inv2"}

None == [set |-> FALSE, val |-> ""]
Some(s) == [set |-> TRUE, val |-> s]

Str(s) == [t |-> "str", v |-> s]
PathObj(s) == [t |-> "path", v |-> s]
Namespace == [t |-> "ns", v |-> ""]
Method(n) == [t |-> "method", v |-> n]
Unset == [t |-> "unset", v |-> ""]

Absent == [kind |-> "absent", text |-> <<>>]
Dir == [kind |-> "dir", text |-> <<>>]
File(toks) == [kind |-> "file", text |-> toks]

(***************************************************************************)
(* The filesystem the invocations run in                                   *)
(***************************************************************************)
Cwd == "/home"
TempNames == {"microblogA", "microblogB"}
TempDirs == {"/home", "/tmp"}
\* Path / name
Join(dir, name) == dir \o "/" \o name
TempPaths == {Join(d, n) : d \in TempDirs, n \in TempNames}
StateFiles == {"/home/microblog.state", "/tmp/x.state", "/tmp/f.state"}
Dirs == {"/", "/home", "/tmp", "/r1", "/r1/.git", "/r2", "/r2/.git", "/plain", "/gf"}
AllPaths == Dirs \cup StateFiles \cup TempPaths
               \cup {"/nodir", "/nodir/s", "/plain/.git", "/gf/.git"}

\* pathlib.Path(s): the normal form of a path string
PathOf(s) ==
    CASE s = "" -> "."
      [] s = "./microblog.state" -> "microblog.state"
      [] OTHER -> s

\* Path.resolve(): the absolute path
Resolve(p) ==
    CASE p = "." -> Cwd
      [] p = "microblog.state" -> Join(Cwd, "microblog.state")
      [] OTHER -> p

\* Path.parent
Parent(p) ==
    CASE p = "." -> "."
      [] p = "microblog.state" -> "."
      [] p = "/home/microblog.state" -> "/home"
      [] p = "/tmp/x.state" -> "/tmp"
      [] p = "/tmp/f.state" -> "/tmp"
      [] p = "/nodir/s" -> "/nodir"
      [] OTHER -> "/"

Exists(f, p) == f[Resolve(p)].kind # "absent"
IsDir(f, p) == f[Resolve(p)].kind = "dir"

(***************************************************************************)
(* toml                                                                    *)
(***************************************************************************)
AttrNames == {"args", "repo", "run", "open", "_dump", "foo"}
Fields == <<"repo">>

\* toml.load: a document is a sequence of  key = value  lines with distinct
\* keys; anything else is a decode error.
TomlLoad(toks) ==
    LET n == Len(toks) \div 3
        wellformed == /\ Len(toks) = 3 * n
                      /\ \A i \in 1..n : /\ toks[3*i - 1] = "="
                                         /\ toks[3*i - 2] \in AttrNames
                      /\ \A i, j \in 1..n : toks[3*i - 2] = toks[3*j - 2] => i = j
    IN  IF wellformed
        THEN [ok |-> TRUE,
              keys |-> {toks[3*i - 2] : i \in 1..n},
              val |-> [k \in AttrNames |->
                         IF \E i \in 1..n : toks[3*i - 2] = k
                         THEN toks[3 * (CHOOSE i \in 1..n : toks[3*i - 2] = k)]
                         ELSE ""]]
        ELSE [ok |-> FALSE, keys |-> {}, val |-> [k \in AttrNames |-> ""]]

\* TomlEncoder.dump_value: a str is written as it is, any other object
\* without __iter__ through "%r"
DumpValue(v) ==
    IF v.t = "str" THEN v.v ELSE "PosixPath('" \o v.v \o "')"

RECURSIVE TomlDumpFields(_, _)
TomlDumpFields(d, i) ==
    IF i > Len(Fields) THEN <<>>
    ELSE <<Fields[i], "=", DumpValue(d[Fields[i]])>> \o TomlDumpFields(d, i + 1)

TomlDumps(d) == TomlDumpFields(d, 1)

(***************************************************************************)
(* MicroblogCLI objects                                                    *)
(***************************************************************************)
NoInstance == [a \in AttrNames |-> Unset]
NoArgs == [state |-> "", action |-> "", repo |-> ""]

\* class attributes: the dataclass default and the methods
ClassAttr(name) == IF name = "repo" THEN Str("") ELSE Method(name)

\* getattr(self, name): the instance __dict__ shadows the class
GetAttr(obj, name) == IF obj[name].t # "unset" THEN obj[name] ELSE ClassAttr(name)

\* dataclasses.asdict(self)
AsDict(obj) == [k \in {Fields[i] : i \in 1..Len(Fields)} |-> GetAttr(obj, k)]

\* what _dump writes for an object
DumpText(obj) == TomlDumps(AsDict(obj))

(***************************************************************************)
(* parse_args                                                              *)
(***************************************************************************)
\* --state and MICROBLOG_STATE, as given to an invocation
StateOptions ==
    { [flag |-> None, env |-> None],
      [flag |-> None, env |-> Some("")],
      [flag |-> None, env |-> Some("/tmp/x.state")],
      [flag |-> Some("/tmp/f.state"), env |-> None],
      [flag |-> Some("/tmp/f.state"), env |-> Some("/tmp/x.state")],
      [flag |-> Some("/nodir/s"), env |-> None],
      [flag |-> Some("/tmp"), env |-> None] }
ActionValues == {"open", "", "show"}
RepoValues == {Some("/r1"), Some("/r2"), Some("/plain"), Some("/gf")}

\* the command lines: open PATH under every state option, and the ones the
\* grammar rejects (no subcommand, unknown subcommand, open without PATH)
Argv ==
    {[flag |-> o.flag, env |-> o.env, action |-> "open", repo |-> r] :
        o \in StateOptions, r \in RepoValues}
    \cup [flag : {None}, env : {None}, action : ActionValues, repo : {None}]

\* os.getenv('MICROBLOG_STATE', './microblog.state')
Getenv(e, default) == IF e.set THEN e.val ELSE default

\* the value of args.state: the flag or the default, through type=Path
StateArg(a) ==
    IF a.flag.set THEN PathOf(a.flag.val)
    ELSE PathOf(Getenv(a.env, "./microblog.state"))

\* parser.parse_args: the subcommand is required and one of the subparsers,
\* and open needs its positional
GrammarOk(a) == a.action = "open" /\ a.repo.set

ParsedNamespace(a) ==
    [state |-> StateArg(a), action |-> a.action, repo |-> PathOf(a.repo.val)]

\* the three parser.error checks after parse_args
StateParentOk(f, ns) == Exists(f, Parent(ns.state)) /\ IsDir(f, Parent(ns.state))
StateNotDir(f, ns) == ~IsDir(f, ns.state)
\* a check that looks at the repository, not at its .git
RepoOk_direxists(f, ns) == ns.action = "open" => Exists(f, ns.repo)

RepoOk(f, ns) ==
    ns.action = "open" =>
        ~(~Exists(f, Join(ns.repo, ".git")) \/ ~IsDir(f, Join(ns.repo, ".git")))

SemanticOk(f, ns) == StateParentOk(f, ns) /\ StateNotDir(f, ns) /\ RepoOk(f, ns)

\* parser.error exits with status 2, an uncaught exception with status 1
UsageStatus == 2
ExceptionStatus == 1

ParseArgs(p) ==
    /\ pc[p] = "start"
    /\ \E a \in Argv :
         /\ argv' = [argv EXCEPT ![p] = a]
         /\ IF ~GrammarOk(a)
            THEN /\ pc' = [pc EXCEPT ![p] = "usage_error"]
                 /\ status' = [status EXCEPT ![p] = UsageStatus]
                 /\ UNCHANGED <<args, events>>
            ELSE /\ args' = [args EXCEPT ![p] = ParsedNamespace(a)]
                 /\ IF SemanticOk(fs, ParsedNamespace(a))
                    THEN /\ pc' = [pc EXCEPT ![p] = "parsed"]
                         /\ events' = [events EXCEPT ![p] = Append(@, "args_parsed")]
                         /\ UNCHANGED status
                    ELSE /\ pc' = [pc EXCEPT ![p] = "usage_error"]
                         /\ status' = [status EXCEPT ![p] = UsageStatus]
                         /\ UNCHANGED events
    /\ UNCHANGED <<fs, fs0, inst, temp, written, writes, lastwriter, loadres>>
    /\ UNCHANGED rvars

(***************************************************************************)
(* MicroblogCLI.__init__ and _load                                         *)
(***************************************************************************)
\* the object after  self.args = args
Fresh == [NoInstance EXCEPT !["args"] = Namespace]

\* for key, value in saved.items(): setattr(self, key, value)
SetAttrs(obj, saved) ==
    [a \in AttrNames |-> IF a \in saved.keys THEN Str(saved.val[a]) ELSE obj[a]]

Construct(p) ==
    /\ pc[p] = "parsed"
    /\ IF ~Exists(fs, args[p].state)
       THEN /\ inst' = [inst EXCEPT ![p] = Fresh]
            /\ pc' = [pc EXCEPT ![p] = "loaded"]
            /\ events' = [events EXCEPT ![p] = Append(@, "state_loaded")]
            /\ loadres' = [loadres EXCEPT ![p] = "nofile"]
            /\ UNCHANGED status
       ELSE \E readable \in BOOLEAN :
              LET saved == TomlLoad(fs[Resolve(args[p].state)].text)
                  obj == SetAttrs(Fresh, saved)
              IN  IF ~readable \/ ~saved.ok
                  THEN /\ inst' = [inst EXCEPT ![p] = Fresh]
                       /\ pc' = [pc EXCEPT ![p] = "load_error"]
                       /\ status' = [status EXCEPT ![p] = ExceptionStatus]
                       /\ loadres' = [loadres EXCEPT ![p] =
                                         IF readable THEN "decode_error" ELSE "oserror"]
                       /\ UNCHANGED events
                  ELSE /\ inst' = [inst EXCEPT ![p] = obj]
                       /\ loadres' = [loadres EXCEPT ![p] = "parsed"]
                       /\ IF GetAttr(obj, "args").t = "ns"
                          THEN /\ pc' = [pc EXCEPT ![p] = "loaded"]
                               /\ events' = [events EXCEPT ![p] = Append(@, "state_loaded")]
                               /\ UNCHANGED status
                          ELSE /\ pc' = [pc EXCEPT ![p] = "load_error"]
                               /\ status' = [status EXCEPT ![p] = ExceptionStatus]
                               /\ UNCHANGED events
    /\ UNCHANGED <<fs, fs0, argv, args, temp, written, writes, lastwriter>>
    /\ UNCHANGED rvars

(***************************************************************************)
(* MicroblogCLI.run and open                                               *)
(***************************************************************************)
\* self.repo = self.args.repo
Open(obj, ns) == [obj EXCEPT !["repo"] = PathObj(ns.repo)]

Run(p) ==
    /\ pc[p] = "loaded"
    /\ IF /\ GetAttr(inst[p], "run") = Method("run")
          /\ GetAttr(inst[p], "args").t = "ns"
          /\ GetAttr(inst[p], args[p].action) = Method("open")
       THEN /\ inst' = [inst EXCEPT ![p] = Open(@, args[p])]
            /\ pc' = [pc EXCEPT ![p] = "ran"]
            /\ events' = [events EXCEPT ![p] = Append(@, "action_executed")]
            /\ status' = [status EXCEPT ![p] = 0]
       ELSE /\ pc' = [pc EXCEPT ![p] = "run_error"]
            /\ status' = [status EXCEPT ![p] = ExceptionStatus]
            /\ UNCHANGED <<inst, events>>
    /\ UNCHANGED <<fs, fs0, argv, args, temp, written, writes, lastwriter, loadres>>
    /\ UNCHANGED rvars

(***************************************************************************)
(* MicroblogCLI.__del__ and _dump                                          *)
(***************************************************************************)
\* the object is finalized once main is left, normally or by an exception
Finalizable == {"load_error", "ran", "run_error"}
Dumping == {"dump_write", "dump_replace"}

\* __del__ can call _dump, and _dump can read self.args.state
CanDump(obj) == GetAttr(obj, "_dump") = Method("_dump") /\ GetAttr(obj, "args").t = "ns"

\* NamedTemporaryFile(dir=statefile.parent, delete=False): a new file under
\* a name that is not in use
\* a temporary file under a fixed name
NewTemp_fixed(f, dir) == {Join(dir, "microblogA")}

NewTemp(f, dir) == {Join(dir, n) : n \in {m \in TempNames : f[Join(dir, m)].kind = "absent"}}

\* a dump that opens the state file itself for writing
DumpOpen_inplace(p) ==
    /\ pc[p] \in Finalizable
    /\ IF ~CanDump(inst[p])
       THEN /\ pc' = [pc EXCEPT ![p] = "done"]
            /\ UNCHANGED <<fs, temp, written, events, writes>>
       ELSE LET t == Resolve(args[p].state)
            IN  /\ fs' = [fs EXCEPT ![t] = File(<<>>)]
                /\ temp' = [temp EXCEPT ![p] = t]
                /\ written' = [written EXCEPT ![p] = 0]
                /\ writes' = [writes EXCEPT ![p] = @ \cup {t}]
                /\ events' = [events EXCEPT ![p] = Append(@, "save_started")]
                /\ pc' = [pc EXCEPT ![p] = "dump_write"]
    /\ UNCHANGED <<fs0, argv, args, inst, lastwriter, status, loadres>>
    /\ UNCHANGED rvars

DumpOpen(p) ==
    /\ pc[p] \in Finalizable
    /\ IF ~CanDump(inst[p])
       THEN /\ pc' = [pc EXCEPT ![p] = "done"]
            /\ UNCHANGED <<fs, temp, written, events, writes>>
       ELSE \E t \in NewTemp(fs, Parent(Resolve(args[p].state))) :
              /\ fs' = [fs EXCEPT ![t] = File(<<>>)]
              /\ temp' = [temp EXCEPT ![p] = t]
              /\ written' = [written EXCEPT ![p] = 0]
              /\ writes' = [writes EXCEPT ![p] = @ \cup {t}]
              /\ events' = [events EXCEPT ![p] = Append(@, "save_started")]
              /\ pc' = [pc EXCEPT ![p] = "dump_write"]
    /\ UNCHANGED <<fs0, argv, args, inst, lastwriter, status, loadres>>
    /\ UNCHANGED rvars

\* toml.dump(asdict(self), temp); temp.flush(): the text reaches the file
\* piece by piece; the with block closes the file after the last piece
DumpWrite(p) ==
    /\ pc[p] = "dump_write"
    /\ LET d == DumpText(inst[p])
           t == temp[p]
       IN  /\ written[p] < Len(d)
           /\ fs' = [fs EXCEPT ![t] = File(Append(@.text, d[written[p] + 1]))]
           /\ written' = [written EXCEPT ![p] = @ + 1]
           /\ pc' = [pc EXCEPT ![p] = IF written[p] + 1 = Len(d) THEN "dump_replace"
                                                                  ELSE "dump_write"]
    /\ UNCHANGED <<fs0, argv, args, inst, temp, events, writes, lastwriter, status, loadres>>
    /\ UNCHANGED rvars

\* os.replace(temp.name, statefile)
DumpReplace(p) ==
    /\ pc[p] = "dump_replace"
    /\ LET target == Resolve(args[p].state)
       IN  /\ fs' = [fs EXCEPT ![target] = fs[temp[p]], ![temp[p]] = Absent]
           /\ lastwriter' = [lastwriter EXCEPT ![target] = p]
           /\ writes' = [writes EXCEPT ![p] = @ \cup {target}]
    /\ events' = [events EXCEPT ![p] = Append(@, "state_saved")]
    /\ pc' = [pc EXCEPT ![p] = "done"]
    /\ UNCHANGED <<fs0, argv, args, inst, temp, written, status, loadres>>
    /\ UNCHANGED rvars

\* the save stops before it is complete: an OSError from the temporary
\* file, the write, the flush or the rename leaves __del__ (which ignores
\* it), or the process is killed
DumpInterrupted(p) ==
    /\ \/ pc[p] \in Dumping
       \/ pc[p] \in Finalizable /\ CanDump(inst[p])
    /\ pc' = [pc EXCEPT ![p] = "stopped"]
    /\ UNCHANGED <<fs, fs0, argv, args, inst, temp, written, events, writes, lastwriter,
                   status, loadres>>
    /\ UNCHANGED rvars

(***************************************************************************)
(* The invocations                                                         *)
(***************************************************************************)
InitialContents ==
    { Absent, File(<<>>), File(<<"garbage">>), File(<<"repo", "=", "/r1">>),
      File(<<"foo", "=", "x">>), File(<<"args", "=", "x">>),
      File(<<"run", "=", "x">>), File(<<"open", "=", "x">>),
      File(<<"_dump", "=", "x">>), File(<<"repo", "=", "/r2", "foo", "=", "x">>) }

InitialFs(c) ==
    [q \in AllPaths |-> IF q \in Dirs THEN Dir
                        ELSE IF q \in StateFiles THEN c
                        ELSE IF q = "/gf/.git" THEN File(<<>>)
                        ELSE Absent]

Init ==
    /\ \E c \in InitialContents : fs = InitialFs(c)
    /\ fs0 = fs
    /\ pc = [p \in Procs |-> "start"]
    /\ argv = [p \in Procs |-> [flag |-> None, env |-> None, action |-> "", repo |-> None]]
    /\ args = [p \in Procs |-> NoArgs]
    /\ inst = [p \in Procs |-> NoInstance]
    /\ temp = [p \in Procs |-> ""]
    /\ written = [p \in Procs |-> 0]
    /\ events = [p \in Procs |-> <<>>]
    /\ writes = [p \in Procs |-> {}]
    /\ lastwriter = [f \in StateFiles |-> "none"]
    /\ status = [p \in Procs |-> -1]
    /\ loadres = [p \in Procs |-> "none"]
    /\ text = <<>>
    /\ out = <<>>
    /\ paras = <<>>
    /\ rpc = "idle"

Next ==
    \E p \in Procs :
        \/ ParseArgs(p)
        \/ Construct(p)
        \/ Run(p)
        \/ DumpOpen(p)
        \/ DumpWrite(p)
        \/ DumpReplace(p)
        \/ DumpInterrupted(p)

Spec == Init /\ [][Next]_vars

(***************************************************************************)
(* renderers.py: a text is a sequence of characters; a URL scheme with its *)
(* "://" is one element, an HTML tag or entity of the output is one too    *)
(***************************************************************************)
MaxLen == 5
HeaderMax == 100
Schemes == {"http://"}
Chars == Schemes \cup {"a", " ", "\n", "<", "&", "\""}
Texts == UNION {[1..n -> Chars] : n \in 0..MaxLen}

IsSpace(c) == c \in {" ", "\n"}

\* not s.strip()
Blank(s) == \A i \in 1..Len(s) : IsSpace(s[i])

\* len(s)
RECURSIVE CharLen(_)
CharLen(s) ==
    IF s = <<>> THEN 0
    ELSE (IF Head(s) \in Schemes THEN 7 ELSE 1) + CharLen(Tail(s))

\* sep.join(parts)
RECURSIVE JoinSeqs(_, _)
JoinSeqs(parts, sep) ==
    IF parts = <<>> THEN <<>>
    ELSE IF Len(parts) = 1 THEN parts[1]
    ELSE parts[1] \o sep \o JoinSeqs(Tail(parts), sep)

\* text.splitlines()
RECURSIVE SplitLines(_)
SplitLines(s) ==
    IF s = <<>> THEN <<>>
    ELSE IF \E i \in 1..Len(s) : s[i] = "\n"
    THEN LET i == CHOOSE k \in 1..Len(s) :
                    s[k] = "\n" /\ \A m \in 1..(k - 1) : s[m] # "\n"
         IN  <<SubSeq(s, 1, i - 1)>> \o SplitLines(SubSeq(s, i + 1, Len(s)))
    ELSE <<s>>

\* _split_header
SplitHeader(t) ==
    LET lines == SplitLines(t)
    IN  IF Len(lines) > 2 /\ lines[2] = <<>> /\ CharLen(lines[1]) <= HeaderMax
        THEN [header |-> lines[1],
              body |-> JoinSeqs(SubSeq(lines, 3, Len(lines)), <<"\n">>)]
        ELSE [header |-> <<>>, body |-> t]

\* body.split('\n\n')
RECURSIVE SplitParagraphs(_)
SplitParagraphs(s) ==
    LET seps == {k \in 1..(Len(s) - 1) : s[k] = "\n" /\ s[k + 1] = "\n"}
    IN  IF seps = {} THEN <<s>>
        ELSE LET i == CHOOSE k \in seps : \A m \in seps : k <= m
             IN  <<SubSeq(s, 1, i - 1)>> \o SplitParagraphs(SubSeq(s, i + 2, Len(s)))

\* where URL matches in s: a scheme followed by at least one non-space
UrlStarts(s) == {k \in 1..(Len(s) - 1) : s[k] \in Schemes /\ ~IsSpace(s[k + 1])}

\* the end of the match that starts at i: \S+ is greedy
UrlEnd(s, i) ==
    CHOOSE j \in (i + 1)..Len(s) :
        /\ \A m \in (i + 1)..j : ~IsSpace(s[m])
        /\ j = Len(s) \/ IsSpace(s[j + 1])

\* URL.split(paragraph): the text before a match, the match, and so on
RECURSIVE UrlSplit(_)
UrlSplit(s) ==
    IF UrlStarts(s) = {} THEN <<s>>
    ELSE LET i == CHOOSE k \in UrlStarts(s) : \A m \in UrlStarts(s) : k <= m
             j == UrlEnd(s, i)
         IN  <<SubSeq(s, 1, i - 1), SubSeq(s, i, j)>> \o UrlSplit(SubSeq(s, j + 1, Len(s)))

\* URL.fullmatch(chunk)
UrlFullMatch(c) ==
    /\ Len(c) >= 2
    /\ c[1] \in Schemes
    /\ \A m \in 2..Len(c) : ~IsSpace(c[m])

\* html.escape
EscapeChar(c) ==
    CASE c = "&" -> "&amp;"
      [] c = "<" -> "&lt;"
      [] c = ">" -> "&gt;"
      [] c = "\"" -> "&quot;"
      [] c = "'" -> "&#x27;"
      [] OTHER -> c

Escape(s) == [i \in 1..Len(s) |-> EscapeChar(s[i])]

\* f'<a href="{chunk}">{html.escape(chunk)}</a>'
Anchor(chunk) == <<"<a href=\"">> \o chunk \o <<"\">">> \o Escape(chunk) \o <<"</a>">>

\* one element of chunks
Piece(chunk) == IF UrlFullMatch(chunk) THEN Anchor(chunk) ELSE Escape(chunk)

\* the body of the loop over the paragraphs: the content of the <p>
RenderParagraph(par) ==
    LET kept == SelectSeq(UrlSplit(par), LAMBDA c : ~Blank(c))
    IN  JoinSeqs([i \in 1..Len(kept) |-> Piece(kept[i])], <<"\n">>)

\* the paragraphs that are rendered
Paragraphs(t) == SelectSeq(SplitParagraphs(SplitHeader(t).body), LAMBDA q : ~Blank(q))

\* plaintext
Plaintext(t) ==
    LET header == SplitHeader(t).header
        ps == Paragraphs(t)
        parts == (IF header # <<>> THEN <<<<"<h1>">> \o Escape(header) \o <<"</h1>">>>>
                  ELSE <<>>)
                 \o [i \in 1..Len(ps) |-> <<"<p>">> \o RenderParagraph(ps[i]) \o <<"</p>">>]
    IN  JoinSeqs(parts, <<"\n">>)

Render ==
    /\ rpc = "input"
    /\ out' = Plaintext(text)
    /\ paras' = [i \in 1..Len(Paragraphs(text)) |->
                   [src |-> Paragraphs(text)[i], inner |-> RenderParagraph(Paragraphs(text)[i])]]
    /\ rpc' = "rendered"
    /\ UNCHANGED <<fs, fs0, pc, argv, args, inst, temp, written, events, writes, lastwriter,
                   status, loadres, text>>

RInit ==
    /\ fs = InitialFs(Absent)
    /\ fs0 = fs
    /\ pc = [p \in Procs |-> "start"]
    /\ argv = [p \in Procs |-> [flag |-> None, env |-> None, action |-> "", repo |-> None]]
    /\ args = [p \in Procs |-> NoArgs]
    /\ inst = [p \in Procs |-> NoInstance]
    /\ temp = [p \in Procs |-> ""]
    /\ written = [p \in Procs |-> 0]
    /\ events = [p \in Procs |-> <<>>]
    /\ writes = [p \in Procs |-> {}]
    /\ lastwriter = [f \in StateFiles |-> "none"]
    /\ status = [p \in Procs |-> -1]
    /\ loadres = [p \in Procs |-> "none"]
    /\ text \in Texts
    /\ out = <<>>
    /\ paras = <<>>
    /\ rpc = "input"

RNext == Render

SpecRender == RInit /\ [][RNext]_vars

(***************************************************************************)
(* Properties                                                              *)
(***************************************************************************)
Range(s) == {s[i] : i \in 1..Len(s)}
Terminal == {"usage_error", "done", "stopped"}
Target(p) == Resolve(args[p].state)

\* C1: whatever step a save has reached, and also when it was interrupted,
\* every state file holds what it held before the invocations started or the
\* complete record of an invocation that saves to it -- never a part of one.
C1_AtomicSave ==
    \A f \in StateFiles :
        \/ fs[f] = fs0[f]
        \/ \E p \in Procs : /\ "save_started" \in Range(events[p])
                            /\ Target(p) = f
                            /\ fs[f] = File(DumpText(inst[p]))

\* a save that stopped in the middle of its write, over an existing record
C1_Witness ==
    \E p \in Procs :
        /\ pc[p] = "stopped"
        /\ written[p] \in 1..2
        /\ fs[temp[p]] = File(SubSeq(DumpText(inst[p]), 1, written[p]))
        /\ fs0[Target(p)].kind = "file"
        /\ fs[Target(p)] = fs0[Target(p)]

\* C2: an invocation whose state file could not be read or decoded ends with
\* an error, without running the action and without saving: it never
\* replaces the state file.
C2_CorruptStateUntouched ==
    \A p \in Procs :
        (loadres[p] \in {"oserror", "decode_error"} /\ pc[p] \in Terminal) =>
            /\ status[p] # 0
            /\ "action_executed" \notin Range(events[p])
            /\ "state_saved" \notin Range(events[p])
            /\ Target(p) \notin writes[p]

\* the command lines C3 calls invalid
InvalidInvocation(a) ==
    \/ a.action # "open"
    \/ ~a.repo.set
    \/ fs0[Resolve(Parent(StateArg(a)))].kind # "dir"
    \/ fs0[Resolve(StateArg(a))].kind = "dir"
    \/ fs0[Join(a.repo.val, ".git")].kind # "dir"

\* C3: an invocation that fails validation (the state path's parent is no
\* directory, the state path is a directory, the subcommand is missing or
\* unknown, the open target has no .git directory) exits with a non-zero
\* status before anything is loaded, with no object state and without
\* creating or writing any file.
C3_UsageErrorBeforeState ==
    \A p \in Procs :
        (pc[p] # "start" /\ InvalidInvocation(argv[p])) =>
            /\ pc[p] = "usage_error"
            /\ status[p] > 0
            /\ loadres[p] = "none"
            /\ inst[p] = NoInstance
            /\ events[p] = <<>>
            /\ writes[p] = {}
            /\ temp[p] = ""

\* one invocation rejected for its state path, the other for its repository
C3_Witness ==
    /\ pc["inv1"] = "usage_error" /\ argv["inv1"].flag = Some("/nodir/s")
    /\ pc["inv2"] = "usage_error" /\ argv["inv2"].flag = None
    /\ argv["inv2"].env = None /\ argv["inv2"].repo = Some("/plain")

\* C4: after an open PATH that ran and saved, the repo field read back from
\* the state file is the string PATH.
C4_OpenPersistsRepo ==
    \A p \in Procs :
        (/\ pc[p] = "done"
         /\ "action_executed" \in Range(events[p])
         /\ "state_saved" \in Range(events[p])
         /\ lastwriter[Target(p)] = p) =>
            LET saved == TomlLoad(fs[Target(p)].text)
            IN  saved.ok /\ "repo" \in saved.keys /\ saved.val["repo"] = args[p].repo

\* C5: two invocations never write the same temporary file, a temporary
\* file holds only what its own invocation wrote, and once all invocations
\* have finished a state file holds the complete record of the invocation
\* whose rename hit it last.
C5_LastWriterWins ==
    /\ \A p, q \in Procs :
          (p # q /\ pc[p] \in Dumping /\ pc[q] \in Dumping) => temp[p] # temp[q]
    /\ \A p \in Procs :
          pc[p] \in Dumping =>
              fs[temp[p]] = File(SubSeq(DumpText(inst[p]), 1, written[p]))
    /\ (\A p \in Procs : pc[p] \in Terminal) =>
          \A f \in StateFiles :
              lastwriter[f] # "none" => fs[f] = File(DumpText(inst[lastwriter[f]]))

\* both invocations saved different records to one state file, and the one
\* that renamed last is inv1
C5_Witness ==
    /\ \A p \in Procs : pc[p] = "done" /\ "state_saved" \in Range(events[p])
    /\ Target("inv1") = Target("inv2")
    /\ lastwriter[Target("inv1")] = "inv1"
    /\ DumpText(inst["inv1"]) # DumpText(inst["inv2"])
    /\ temp["inv1"] # temp["inv2"]

\* C6: the state path is the --state value if given, else MICROBLOG_STATE
\* if set and not empty, else ./microblog.state.
C6_StatePathResolution ==
    \A p \in Procs :
        (pc[p] # "start" /\ GrammarOk(argv[p])) =>
            args[p].state =
                PathOf(IF argv[p].flag.set THEN argv[p].flag.val
                       ELSE IF argv[p].env.set /\ argv[p].env.val # ""
                            THEN argv[p].env.val
                       ELSE "./microblog.state")

\* C7: the output of plaintext holds no literal & < > or quote of its own:
\* outside the tags the renderer emits, they occur as entities only, in the
\* href of an anchor too.
C7_OutputEscaped ==
    rpc = "rendered" =>
        \A i \in 1..Len(out) : out[i] \notin {"&", "<", ">", "\"", "'"}

\* C8: what an invocation that passed validation does is a prefix of: args
\* parsed, state loaded, action executed, save started, state saved.
C8_Order ==
    \A p \in Procs :
        LET canon == <<"args_parsed", "state_loaded", "action_executed",
                       "save_started", "state_saved">>
        IN  /\ Len(events[p]) <= Len(canon)
            /\ events[p] = SubSeq(canon, 1, Len(events[p]))

\* C9: whatever keys a decodable state file has, the run raises no
\* exception, and when its save is not interrupted the state is saved.
C9_UnknownKeysTolerated ==
    \A p \in Procs :
        loadres[p] = "parsed" =>
            /\ status[p] # ExceptionStatus
            /\ pc[p] = "done" => "state_saved" \in Range(events[p])

\* the content C10 gives a paragraph: one piece per segment, nothing between
RECURSIVE Concat(_)
Concat(parts) == IF parts = <<>> THEN <<>> ELSE Head(parts) \o Concat(Tail(parts))

SegmentsContent(par) ==
    Concat([i \in 1..Len(UrlSplit(par)) |-> Piece(UrlSplit(par)[i])])

\* C10: the content of every <p> is the concatenation of the pieces of all
\* segments of its paragraph, in order, with nothing inserted or dropped.
C10_ParagraphContent ==
    rpc = "rendered" =>
        \A k \in 1..Len(paras) : paras[k].inner = SegmentsContent(paras[k].src)

====
